---- MODULE Spec2Model ----
(***************************************************************************)
(* A model of the sensor loop of dhtmonitor.py (Python 2): main() reads    *)
(* four DHT22 channels, sends one ThingSpeak request and one MQTT publish  *)
(* and sleeps, forever.  Positions of main() are the blocking calls; the   *)
(* exceptions a call can raise are inputs, and the names that only         *)
(* `from dhtmonitor_conf import *` could bind are part of the environment. *)
(* The motion trigger of motiondetect.py, the SMS client of                *)
(* mprofi_api_client/connector.py and the formatting of getSensorData have *)
(* their own specifications over their own variables.                      *)
(***************************************************************************)
EXTENDS Integers, Sequences, FiniteSets

VARIABLES
    pc,      \* position of main(): the next blocking call or handler
    ch,      \* index (1..4) of the channel the next getSensorData call reads
    RH,      \* locals RH, RH2, RH3, RH4 of main(), as RH[1..4]
    T,       \* locals T, T2, T3, T4 of main(), as T[1..4]
    exc,     \* the exception in flight, "none" when there is none
    conf,    \* which of the names checksLogger, httplib the configuration binds
    trace,   \* history: the calls of the current iteration, in order
    prev,    \* history: the readings and payloads of one remembered earlier iteration
    \* getSensorData on its own
    f_in,    \* what read_retry returned
    f_out,   \* what getSensorData returned for it, << >> before the call
    \* motiondetect.py
    m_pc,    \* position of the script
    num,     \* the loop variable of `for num in range(1,120)`
    m_log,   \* history: the calls of the run, in order
    \* MprofiAPIConnector
    payload,   \* self.payload: a list of references to dicts
    response,  \* self.response: a list of references to dicts
    c_heap,    \* the dict objects, by reference: c_heap[o] is the dict o refers to
    c_env,     \* whether the json module of requests.compat has JSONDecodeError
    c_nextId,  \* the id the API gives to the next message it accepts
    c_added,   \* history: the references to the dicts add_message made
    c_calls,   \* history: how many methods have been called
    c_posts,   \* history: the POST requests issued, in order
    c_last     \* history: the last method call, its arguments, state before and outcome

sensorVars == <<pc, ch, RH, T, exc, conf, trace, prev>>

formatVars == <<f_in, f_out>>

motionVars == <<m_pc, num, m_log>>

connectorVars == <<payload, response, c_heap, c_added, c_env, c_nextId, c_calls, c_posts, c_last>>

vars == <<sensorVars, formatVars, motionVars, connectorVars>>

----------------------------------------------------------------------------
\* Bounds of the model

\* how many of the sample readings a sensor read can return
NumSamples == 2

\* readings in hundredths of a unit (6134 is 61.34 %, 2254 is 22.54 degrees)
SampleReadings ==
    << [ok |-> TRUE, RH |-> 6134, T |-> 2254],
       [ok |-> TRUE, RH |-> 9996, T |-> -4],
       [ok |-> TRUE, RH |-> 5552, T |-> 1900],
       [ok |-> TRUE, RH |-> 7021, T |-> -1238] >>

Min(a, b) == IF a < b THEN a ELSE b

Readings == { SampleReadings[i] : i \in 1..Min(NumSamples, Len(SampleReadings)) }

\* Adafruit_DHT.read_retry returns (None, None) when every retry failed
NoValues == [ok |-> FALSE, RH |-> 0, T |-> 0]

----------------------------------------------------------------------------
\* Program constants

Pins == <<2, 3, 4, 17>>

SleepSeconds == 600

\* a local that no statement has assigned yet
Unbound == << >>

----------------------------------------------------------------------------
\* str(round(x, 1)) of Python 2, on a value given in hundredths

Digits == <<"0", "1", "2", "3", "4", "5", "6", "7", "8", "9">>

Abs(x) == IF x < 0 THEN -x ELSE x

RECURSIVE IntStr(_)
IntStr(n) ==
    IF n < 10 THEN <<Digits[n + 1]>>
    ELSE IntStr(n \div 10) \o <<Digits[(n % 10) + 1]>>

round1_trunc(x) == [neg |-> x < 0, tenths |-> Abs(x) \div 10]

\* A reading of a hundredths stands for the float a/100.0: the double nearest
\* to a/100, whose significand has 53 bits.

\* 2^k modulo m
RECURSIVE Pow2Mod(_, _)
Pow2Mod(k, m) == IF k = 0 THEN 1 % m ELSE (2 * Pow2Mod(k - 1, m)) % m

\* the largest e >= 0 with 2^e <= n, for n >= 1
RECURSIVE Log2(_)
Log2(n) == IF n < 2 THEN 0 ELSE 1 + Log2(n \div 2)

\* the smallest j >= 0 with a * 2^j >= 100, for a >= 1
RECURSIVE ShiftToUnit(_)
ShiftToUnit(a) == IF a >= 100 THEN 0 ELSE 1 + ShiftToUnit(2 * a)

\* the k with 2^52 <= (a/100) * 2^k < 2^53: the double is m / 2^k for the
\* integer m nearest to a * 2^k / 100
SignificandShift(a) ==
    IF a >= 100 THEN 52 - Log2(a \div 100) ELSE 52 + ShiftToUnit(a)

\* where the double a/100.0 lies against the decimal a/100 (a >= 1): from
\* a * 2^k modulo 200 come the remainder of the division by 100 and the parity
\* of the quotient; the division rounds to nearest, ties to even
DoubleSide(a) ==
    LET R == ((a % 200) * Pow2Mod(SignificandShift(a), 200)) % 200
        r == R % 100
        odd == R \div 100 = 1
    IN IF r = 0 THEN "exact"
       ELSE IF r > 50 \/ (r = 50 /\ odd) THEN "above"
       ELSE "below"

\* round(x, 1) of Python 2: the tenth nearest to the double, a double exactly
\* halfway between two tenths goes away from zero; the sign is kept
\* (round(-0.04, 1) is -0.0, round(0.15, 1) is 0.1, round(0.25, 1) is 0.3)
round1(x) ==
    LET a == Abs(x)
        q == a \div 10
        d == a % 10
        up == \/ d > 5
              \/ d = 5 /\ DoubleSide(a) # "below"
    IN [neg |-> x < 0, tenths |-> IF up THEN q + 1 ELSE q]

\* str(float): sign, integer digits, ".", the decimal digit
str(r) ==
    (IF r.neg THEN <<"-">> ELSE << >>)
        \o IntStr(r.tenths \div 10) \o <<".">> \o <<Digits[(r.tenths % 10) + 1]>>

\* getSensorData(pin), given what read_retry returned: the pair
\* (str(round(RH,1)), str(round(T,1))), or the TypeError round(None, 1) raises
getSensorData(res) ==
    IF res.ok
    THEN [exc |-> "none", val |-> <<str(round1(res.RH)), str(round1(res.T))>>]
    ELSE [exc |-> "TypeError", val |-> << >>]

----------------------------------------------------------------------------
\* The statement `RH_c, T_c = getSensorData(pin)` of main(): the exception it
\* raises and the locals after it

Unpack_swallow(c, res) ==
    LET g == getSensorData(res) IN
    IF g.exc # "none"
    THEN [exc |-> "none", RH |-> RH, T |-> T]
    ELSE [exc |-> "none",
          RH |-> [RH EXCEPT ![c] = g.val[1]],
          T |-> [T EXCEPT ![c] = g.val[2]]]

Unpack(c, res) ==
    LET g == getSensorData(res) IN
    IF g.exc # "none"
    THEN [exc |-> g.exc, RH |-> RH, T |-> T]
    ELSE [exc |-> "none",
          RH |-> [RH EXCEPT ![c] = g.val[1]],
          T |-> [T EXCEPT ![c] = g.val[2]]]

\* where main() goes after channel c has been read
AfterAcquire_early(c) ==
    IF c < 3 THEN [pc |-> "acquire", ch |-> c + 1] ELSE [pc |-> "urlopen", ch |-> 1]

AfterAcquire(c) ==
    IF c < 4 THEN [pc |-> "acquire", ch |-> c + 1] ELSE [pc |-> "urlopen", ch |-> 1]

\* the query string of the logging request: field1..field8
Url_swapped(rh, t) ==
    << [name |-> "field1", value |-> rh[1]], [name |-> "field2", value |-> t[1]],
       [name |-> "field3", value |-> t[2]], [name |-> "field4", value |-> rh[2]],
       [name |-> "field5", value |-> t[3]], [name |-> "field6", value |-> rh[3]],
       [name |-> "field7", value |-> t[4]], [name |-> "field8", value |-> rh[4]] >>

Url(rh, t) ==
    << [name |-> "field1", value |-> t[1]], [name |-> "field2", value |-> rh[1]],
       [name |-> "field3", value |-> t[2]], [name |-> "field4", value |-> rh[2]],
       [name |-> "field5", value |-> t[3]], [name |-> "field6", value |-> rh[3]],
       [name |-> "field7", value |-> t[4]], [name |-> "field8", value |-> rh[4]] >>

\* the list msgs of (topic, payload, qos, retain)
Msg(topic, value, qos, retain) ==
    [topic |-> topic, payload |-> value, qos |-> qos, retain |-> retain]

Msgs_wrong(rh, t) ==
    << Msg("/temperature/garden", t[1], 0, TRUE),
       Msg("/temperature/taras", t[2], 0, TRUE),
       Msg("/hummidity/taras", rh[3], 0, TRUE),
       Msg("/temperature/loundry", t[3], 0, TRUE),
       Msg("/hummidity/loundry", rh[3], 0, FALSE),
       Msg("/temperature/front", t[4], 0, TRUE) >>

Msgs(rh, t) ==
    << Msg("/temperature/garden", t[1], 0, TRUE),
       Msg("/temperature/taras", t[2], 0, TRUE),
       Msg("/hummidity/taras", rh[2], 0, TRUE),
       Msg("/temperature/loundry", t[3], 0, TRUE),
       Msg("/hummidity/loundry", rh[3], 0, TRUE),
       Msg("/temperature/front", t[4], 0, TRUE) >>

----------------------------------------------------------------------------
\* Exceptions

\* isinstance(e, cls) for the exception classes the handlers name
IsInstance(e, cls) ==
    CASE cls = "HTTPError"     -> e = "HTTPError"
      [] cls = "URLError"      -> e \in {"HTTPError", "URLError"}
      [] cls = "HTTPException" -> e = "HTTPException"
      [] cls = "Exception"     -> e # "KeyboardInterrupt"
      [] OTHER                 -> FALSE

\* checksLogger.error(...): a NameError when nothing binds checksLogger
LogError(cf) == IF cf.checksLogger THEN "logged" ELSE "NameError"

\* the except clauses of the inner try, tried in order; naming
\* httplib.HTTPException is a NameError when nothing binds httplib
InnerExcept(e, cf) ==
    IF IsInstance(e, "HTTPError") THEN LogError(cf)
    ELSE IF IsInstance(e, "URLError") THEN LogError(cf)
    ELSE IF ~cf.httplib THEN "NameError"
    ELSE IF IsInstance(e, "HTTPException") THEN LogError(cf)
    ELSE IF IsInstance(e, "Exception") THEN LogError(cf)
    ELSE "propagate"

\* the bare `except:` of the outer try
OuterCatches_narrow(e) == IsInstance(e, "Exception")

OuterCatches(e) == TRUE

\* what each blocking call can raise
ReadRaises    == {"RuntimeError", "KeyboardInterrupt"}
UrlopenRaises == {"HTTPError", "URLError", "HTTPException", "socket.error",
                  "KeyboardInterrupt"}
PublishRaises == {"socket.error", "KeyboardInterrupt"}
SleepRaises   == {"KeyboardInterrupt"}

----------------------------------------------------------------------------
\* History

\* the readings and payloads of the iteration recorded in a trace
ReadsOf(tr)    == SelectSeq(tr, LAMBDA e : e.op = "read")
UrlopensOf(tr) == SelectSeq(tr, LAMBDA e : e.op = "urlopen")
PublishesOf(tr) == SelectSeq(tr, LAMBDA e : e.op = "publish")

Summary(tr) ==
    [inputs |-> [i \in 1..Len(ReadsOf(tr)) |-> ReadsOf(tr)[i].res],
     url    |-> IF UrlopensOf(tr) = << >> THEN << >> ELSE UrlopensOf(tr)[1].url,
     msgs   |-> IF PublishesOf(tr) = << >> THEN << >> ELSE PublishesOf(tr)[1].msgs]

NoSummary == [inputs |-> << >>, url |-> << >>, msgs |-> << >>]

----------------------------------------------------------------------------
\* the parts of the state a specification does not run stay as they are here
FormatIdle == f_in = NoValues /\ f_out = [exc |-> "not called", val |-> << >>]

MotionIdle == m_pc = "not run" /\ num = 0 /\ m_log = << >>

ConnectorIdle ==
    /\ payload = << >>
    /\ response = << >>
    /\ c_heap = << >>
    /\ c_added = {}
    /\ c_env = [JSONDecodeError |-> TRUE]
    /\ c_nextId = 1
    /\ c_calls = 0
    /\ c_posts = << >>
    /\ c_last = [op |-> "none", raised |-> "none"]

SensorIdle ==
    /\ pc = "not run"
    /\ ch = 1
    /\ RH = [c \in 1..4 |-> Unbound]
    /\ T = [c \in 1..4 |-> Unbound]
    /\ exc = "none"
    /\ conf = [checksLogger |-> FALSE, httplib |-> FALSE]
    /\ trace = << >>
    /\ prev = NoSummary

Init ==
    /\ pc = "acquire"
    /\ ch = 1
    /\ RH = [c \in 1..4 |-> Unbound]
    /\ T = [c \in 1..4 |-> Unbound]
    /\ exc = "none"
    /\ conf \in [checksLogger : BOOLEAN, httplib : BOOLEAN]
    /\ trace = << >>
    /\ prev = NoSummary
    /\ FormatIdle
    /\ MotionIdle
    /\ ConnectorIdle

\* the history at a getSensorData call: the first call of an iteration starts
\* a new trace; the iteration that just ended may become the remembered one:
\* with remember = "delivered" one that issued its logging request, with
\* remember = "cut" one that was cut short during acquisition
Started(ev, remember) ==
    IF ch = 1
    THEN /\ trace' = <<ev>>
         /\ \/ prev' = prev
            \/ /\ remember = "delivered"
               /\ UrlopensOf(trace) # << >>
               /\ prev' = Summary(trace)
            \/ /\ remember = "cut"
               /\ trace # << >>
               /\ UrlopensOf(trace) = << >>
               /\ prev' = Summary(trace)
    ELSE /\ trace' = Append(trace, ev)
         /\ prev' = prev

\* RH_c, T_c = getSensorData(pin): read_retry returns a reading or no values
AcquireStep(remember) ==
    /\ pc = "acquire"
    /\ \E res \in Readings \cup {NoValues} :
         LET u == Unpack(ch, res)
             ev == [op |-> "read", pin |-> Pins[ch], res |-> res, exc |-> u.exc]
         IN /\ RH' = u.RH
            /\ T' = u.T
            /\ exc' = u.exc
            /\ IF u.exc = "none"
               THEN /\ pc' = AfterAcquire(ch).pc
                    /\ ch' = AfterAcquire(ch).ch
               ELSE /\ pc' = "outer_except"
                    /\ ch' = 1
            /\ Started(ev, remember)
    /\ UNCHANGED conf

\* read_retry itself raises
AcquireRaiseStep(remember) ==
    /\ pc = "acquire"
    /\ \E e \in ReadRaises :
         /\ exc' = e
         /\ Started([op |-> "read", pin |-> Pins[ch], res |-> NoValues, exc |-> e],
                    remember)
    /\ pc' = "outer_except"
    /\ ch' = 1
    /\ UNCHANGED <<RH, T, conf>>

Acquire == AcquireStep("none")

AcquireRaise == AcquireRaiseStep("none")

AcquireRemembering == AcquireStep("delivered")

AcquireRaiseRemembering == AcquireRaiseStep("delivered")

AcquireAfterCut == AcquireStep("cut")

AcquireRaiseAfterCut == AcquireRaiseStep("cut")

\* f = urllib2.urlopen(...); f.close()
LogRequest ==
    /\ pc = "urlopen"
    /\ \E e \in UrlopenRaises \cup {"none"} :
         /\ exc' = e
         /\ trace' = Append(trace, [op |-> "urlopen", url |-> Url(RH, T), exc |-> e])
         /\ pc' = IF e = "none" THEN "publish" ELSE "inner_except"
    /\ UNCHANGED <<ch, RH, T, conf, prev>>

\* msgs = [...]; publish.multiple(msgs, ...): two tabs deep, which Python 2
\* reads as 16 columns, so inside the inner try, after f.close()
BrokerPublish ==
    /\ pc = "publish"
    /\ \E e \in PublishRaises \cup {"none"} :
         /\ exc' = e
         /\ trace' = Append(trace, [op |-> "publish", msgs |-> Msgs(RH, T), exc |-> e])
         /\ pc' = IF e = "none" THEN "sleep" ELSE "inner_except"
    /\ UNCHANGED <<ch, RH, T, conf, prev>>

\* the except clauses of the inner try
InnerHandler ==
    /\ pc = "inner_except"
    /\ LET out == InnerExcept(exc, conf) IN
         /\ trace' = Append(trace, [op |-> "except", caught |-> exc, out |-> out])
         /\ exc' = CASE out = "logged"    -> "none"
                     [] out = "NameError" -> "NameError"
                     [] OTHER             -> exc
         /\ pc' = IF out = "logged" THEN "sleep" ELSE "outer_except"
    /\ UNCHANGED <<ch, RH, T, conf, prev>>

\* sleep(600), the last statement of the outer try
Sleep ==
    /\ pc = "sleep"
    /\ \E e \in SleepRaises \cup {"none"} :
         /\ exc' = e
         /\ trace' = Append(trace, [op |-> "sleep", secs |-> SleepSeconds, exc |-> e])
         /\ pc' = IF e = "none" THEN "acquire" ELSE "outer_except"
    /\ UNCHANGED <<ch, RH, T, conf, prev>>

\* except: print 'error: ', sys.exc_info()[0]
OuterHandler ==
    /\ pc = "outer_except"
    /\ trace' = Append(trace, [op |-> "print", caught |-> exc])
    /\ IF OuterCatches(exc)
       THEN pc' = "acquire" /\ exc' = "none"
       ELSE pc' = "raised" /\ exc' = exc
    /\ UNCHANGED <<ch, RH, T, conf, prev>>

\* a step of the sensor loop leaves the rest of the state alone
SensorOnly == UNCHANGED <<formatVars, motionVars, connectorVars>>

Next ==
    \/ Acquire /\ SensorOnly
    \/ AcquireRaise /\ SensorOnly
    \/ LogRequest /\ SensorOnly
    \/ BrokerPublish /\ SensorOnly
    \/ InnerHandler /\ SensorOnly
    \/ Sleep /\ SensorOnly
    \/ OuterHandler /\ SensorOnly

Spec == Init /\ [][Next]_vars

\* the same loop, observed with one earlier delivering iteration remembered
NextTwoCycles ==
    \/ AcquireRemembering /\ SensorOnly
    \/ AcquireRaiseRemembering /\ SensorOnly
    \/ LogRequest /\ SensorOnly
    \/ BrokerPublish /\ SensorOnly
    \/ InnerHandler /\ SensorOnly
    \/ Sleep /\ SensorOnly
    \/ OuterHandler /\ SensorOnly

SpecTwoCycles == Init /\ [][NextTwoCycles]_vars

\* the same loop, observed with one earlier iteration remembered that was cut
\* short during acquisition
NextAfterCut ==
    \/ AcquireAfterCut /\ SensorOnly
    \/ AcquireRaiseAfterCut /\ SensorOnly
    \/ LogRequest /\ SensorOnly
    \/ BrokerPublish /\ SensorOnly
    \/ InnerHandler /\ SensorOnly
    \/ Sleep /\ SensorOnly
    \/ OuterHandler /\ SensorOnly

SpecAfterCut == Init /\ [][NextAfterCut]_vars

----------------------------------------------------------------------------
\* getSensorData on its own, over the range of the DHT22: humidity 0..100 %,
\* temperature -40..80 degrees, in hundredths

MaxHumidity == 10000

MaxTemperature == 8000

BelowZero == 4000

FormatInputs ==
    {[ok |-> TRUE, RH |-> h, T |-> 2254] : h \in 0..MaxHumidity}
        \cup {[ok |-> TRUE, RH |-> 6134, T |-> t] : t \in (0 - BelowZero)..MaxTemperature}
        \cup {NoValues}

FormatInit ==
    /\ f_in \in FormatInputs
    /\ f_out = [exc |-> "not called", val |-> << >>]
    /\ SensorIdle
    /\ MotionIdle
    /\ ConnectorIdle

\* one call of getSensorData
FormatCall ==
    /\ f_out.exc = "not called"
    /\ f_out' = getSensorData(f_in)
    /\ UNCHANGED <<f_in, sensorVars, motionVars, connectorVars>>

NextFormat == FormatCall

SpecFormat == FormatInit /\ [][NextFormat]_vars

----------------------------------------------------------------------------
\* motiondetect.py: poll the input pin; on detection notify the logging
\* endpoint, connect to the broker and handle the broker's message

\* for num in range(1,120)
RangeStart == 1

RangeStop == 120

\* time.sleep(1)
PollSeconds == 1

\* the hours of a day and the payloads a broker message can carry
Hours == 0..23

Payloads == {"0", "1", "2", "3"}

\* time.strftime("%H"): the hour as two digits
strftimeH(h) == <<Digits[(h \div 10) + 1], Digits[(h % 10) + 1]>>

\* int(hour) of a text of digits
RECURSIVE int(_)
int(txt) ==
    IF txt = << >> THEN 0
    ELSE 10 * int(SubSeq(txt, 1, Len(txt) - 1))
             + ((CHOOSE d \in 1..10 : Digits[d] = txt[Len(txt)]) - 1)

\* the condition of on_message:
\* msg.payload == "1" or ((int(hour) >= 24 or int(hour) < 6) and msg.payload <> "3")
SmsDue_anyhour(p, hour) == p # "3"

SmsDue_inverted(p, hour) ==
    p = "1" \/ ((int(hour) >= 24 \/ int(hour) < 6) /\ p = "3")

SmsDue(p, hour) ==
    p = "1" \/ ((int(hour) >= 24 \/ int(hour) < 6) /\ p # "3")

\* where the script goes when loop_forever has returned: print, sys.exit(0)
AfterDetection_continue == "sleep"

AfterDetection == "exit0"

MotionInit ==
    /\ m_pc = "poll"
    /\ num = RangeStart
    /\ m_log = << >>
    /\ SensorIdle
    /\ FormatIdle
    /\ ConnectorIdle

MotionOnly == UNCHANGED <<sensorVars, formatVars, connectorVars>>

\* if (GPIO.input(gpio_pin)==1)
Poll ==
    /\ m_pc = "poll"
    /\ \E v \in {0, 1} :
         /\ m_log' = Append(m_log, [op |-> "poll", value |-> v])
         /\ m_pc' = IF v = 1 THEN "urlopen" ELSE "sleep"
    /\ UNCHANGED num

\* time.sleep(1), then the next num of the range or the end of the script
PollSleep ==
    /\ m_pc = "sleep"
    /\ m_log' = Append(m_log, [op |-> "sleep", secs |-> PollSeconds])
    /\ IF num + 1 < RangeStop
       THEN num' = num + 1 /\ m_pc' = "poll"
       ELSE num' = num /\ m_pc' = "ended"

\* f = urllib2.urlopen(...): an exception is caught nowhere
MotionLogRequest ==
    /\ m_pc = "urlopen"
    /\ \E ok \in BOOLEAN :
         /\ m_log' = Append(m_log, [op |-> "urlopen", ok |-> ok])
         /\ m_pc' = IF ok THEN "connect" ELSE "crashed"
    /\ UNCHANGED num

\* client.connect(mqtt_server, mqtt_port, 60)
Connect ==
    /\ m_pc = "connect"
    /\ \E ok \in BOOLEAN :
         /\ m_log' = Append(m_log, [op |-> "connect", ok |-> ok])
         /\ m_pc' = IF ok THEN "loop_forever" ELSE "crashed"
    /\ UNCHANGED num

\* loop_forever calls on_connect: client.subscribe(mqtt_topic)
OnConnect ==
    /\ m_pc = "loop_forever"
    /\ m_log' = Append(m_log, [op |-> "subscribe"])
    /\ m_pc' = "subscribed"
    /\ UNCHANGED num

\* loop_forever calls on_message: the SMS when it is due, then
\* client.disconnect(); an exception of connector.send leaves on_message
\* before the disconnect and leaves loop_forever
OnMessage ==
    /\ m_pc = "subscribed"
    /\ \E p \in Payloads, h \in Hours, sendRaises \in BOOLEAN :
         LET hour == strftimeH(h)
             due == SmsDue(p, hour)
         IN /\ due \/ ~sendRaises
            /\ m_log' = Append(m_log,
                   [op |-> "on_message", payload |-> p, hour |-> h,
                    sms |-> IF ~due THEN "none"
                            ELSE IF sendRaises THEN "raised" ELSE "sent",
                    disconnect |-> ~(due /\ sendRaises)])
            /\ m_pc' = IF due /\ sendRaises THEN "crashed" ELSE "after_loop"
    /\ UNCHANGED num

\* print "motion detected"; sys.exit(0)
Exit ==
    /\ m_pc = "after_loop"
    /\ m_log' = Append(m_log, [op |-> "exit", code |-> 0])
    /\ m_pc' = AfterDetection
    /\ UNCHANGED num

NextMotion ==
    \/ Poll /\ MotionOnly
    \/ PollSleep /\ MotionOnly
    \/ MotionLogRequest /\ MotionOnly
    \/ Connect /\ MotionOnly
    \/ OnConnect /\ MotionOnly
    \/ OnMessage /\ MotionOnly
    \/ Exit /\ MotionOnly

SpecMotion == MotionInit /\ [][NextMotion]_vars

----------------------------------------------------------------------------
\* MprofiAPIConnector: add_message and send.  A message is a Python dict, here
\* a function from keys to values; `reference` is << >> for None and
\* <<text>> for a text.

\* how many messages a payload holds at most, and how many calls a run makes
MaxMessages == 3

MaxCalls == 4

Recipients == {"", "111222333", "444555666"}

Contents == {"", "Welcome!"}

References == {<< >>, <<"2015-02-05">>}

\* what a caller passes to the constructor as payload: None or an empty list
\* (both an empty list here), or a list of the caller's dicts, in which one
\* dict may stand more than once: the dicts the caller made and the list of
\* references to them
MaxInitial == 2

InitialMessages ==
    {[recipient |-> r, message |-> "Welcome!"] : r \in Recipients \ {""}}

\* the dicts are numbered in the order the list first names them
FirstNamedInOrder(f, k) ==
    /\ \A o \in 1..k : \E i \in DOMAIN f : f[i] = o
    /\ \A i \in DOMAIN f : \A o \in 1..(f[i] - 1) : \E j \in 1..(i - 1) : f[j] = o

ConstructorPayloads ==
    UNION {{[objects |-> h, list |-> l] :
               h \in [1..k -> InitialMessages],
               l \in {f \in [1..n -> 1..k] : FirstNamedInOrder(f, k)}} :
           n \in 0..Min(MaxInitial, MaxMessages), k \in 0..MaxInitial}

\* the dicts a list of references stands for
Deref(refs, heap) == [i \in 1..Len(refs) |-> heap[refs[i]]]

\* what the POST can come to: a 2xx answer with a JSON body, a connection
\* failure, a non-2xx answer, a 2xx answer whose body is not JSON
HttpOutcomes == {"ok", "ConnectionError", "HTTPError", "NotJSON"}

\* d.update(u)
DictUpdate(d, u) ==
    [k \in (DOMAIN d) \cup (DOMAIN u) |-> IF k \in DOMAIN u THEN u[k] ELSE d[k]]

\* {'reference': reference} when reference is not None
ReferenceDict(reference) ==
    IF reference # << >> THEN [reference |-> reference[1]] ELSE << >>

\* the endpoint send() uses for a payload of n >= 1 messages
UsedEndpoint_send(n) == "send"

UsedEndpoint(n) == IF n = 1 THEN "send" ELSE "sendbulk"

\* the dicts and full_payload when send() posts: with one message
\* full_payload is that message itself, updated in place; with more it is a
\* new dict around the list
Prepared(pl, heap, reference) ==
    IF Len(pl) = 1
    THEN LET msg == DictUpdate(heap[pl[1]], ReferenceDict(reference))
         IN [heap |-> [heap EXCEPT ![pl[1]] = msg], data |-> msg]
    ELSE [heap |-> heap,
          data |-> DictUpdate([messages |-> Deref(pl, heap)], ReferenceDict(reference))]

\* the exception send() raises for an outcome of the POST; naming
\* json.JSONDecodeError is an AttributeError when the json module has none
HttpRaises(http, env) ==
    CASE http = "ConnectionError" -> "MprofiConnectionError"
      [] http = "HTTPError"       -> "MprofiAuthError"
      [] http = "NotJSON"         -> IF env.JSONDecodeError
                                     THEN "MprofiConnectionError"
                                     ELSE "AttributeError"
      [] OTHER                    -> "none"

\* the JSON the API answers with: {'id': i} for one message,
\* {'result': [{'id': i}, ...]} for several
ApiResponse(n, nextId) ==
    IF n = 1 THEN [id |-> nextId]
    ELSE [result |-> [i \in 1..n |-> [id |-> nextId + i - 1]]]

\* extract_from_response
ExtractFromResponse(n, r) == IF n = 1 THEN <<[id |-> r.id]>> ELSE r.result

\* the zip loop from its i-th pair on: sent_message.update(response_message)
\* on the dict the i-th reference of the list refers to
RECURSIVE ZipUpdate(_, _, _, _)
ZipUpdate(heap, refs, extracted, i) ==
    IF i > Min(Len(refs), Len(extracted)) THEN heap
    ELSE ZipUpdate([heap EXCEPT ![refs[i]] = DictUpdate(@, extracted[i])],
                   refs, extracted, i + 1)

\* self.response = self.payload; self.payload = []; the zip loop
AfterSuccess_keep(pl, heap, extracted) ==
    [payload |-> pl, response |-> pl, heap |-> ZipUpdate(heap, pl, extracted, 1)]

AfterSuccess(pl, heap, extracted) ==
    [payload |-> << >>, response |-> pl, heap |-> ZipUpdate(heap, pl, extracted, 1)]

\* send(reference) on a connector with payload pl and response rs
send(pl, rs, heap, reference, http, env, nextId) ==
    IF Len(pl) = 0
    THEN [payload |-> pl, response |-> rs, heap |-> heap, posts |-> << >>,
          raised |-> "ValueError", json |-> << >>]
    ELSE LET prep == Prepared(pl, heap, reference)
             post == [endpoint |-> UsedEndpoint(Len(pl)), data |-> prep.data]
             raised == HttpRaises(http, env)
         IN IF raised # "none"
            THEN [payload |-> pl, response |-> rs, heap |-> prep.heap,
                  posts |-> <<post>>, raised |-> raised, json |-> << >>]
            ELSE LET r == ApiResponse(Len(pl), nextId)
                     after == AfterSuccess(pl, prep.heap,
                                           ExtractFromResponse(Len(pl), r))
                 IN [payload |-> after.payload, response |-> after.response,
                     heap |-> after.heap,
                     posts |-> <<post>>, raised |-> "none", json |-> r]

\* add_message(recipient, message): a new dict, appended to the payload
add_message(pl, heap, recipient, message) ==
    IF recipient = "" \/ message = ""
    THEN [payload |-> pl, heap |-> heap, raised |-> "ValueError"]
    ELSE [payload |-> Append(pl, Len(heap) + 1),
          heap |-> Append(heap, [recipient |-> recipient, message |-> message]),
          raised |-> "none"]

\* __init__(api_token, payload): self.payload = payload or []; the list and
\* the dicts in it are the caller's own
InitialPayload(arg) == IF arg.list = << >> THEN << >> ELSE arg.list

ConnectorInit ==
    /\ \E arg \in ConstructorPayloads :
         /\ payload = InitialPayload(arg)
         /\ c_heap = arg.objects
    /\ response = << >>
    /\ c_added = {}
    /\ c_env \in [JSONDecodeError : BOOLEAN]
    /\ c_nextId = 1
    /\ c_calls = 0
    /\ c_posts = << >>
    /\ c_last = [op |-> "none", raised |-> "none"]
    /\ SensorIdle
    /\ FormatIdle
    /\ MotionIdle

ConnectorOnly == UNCHANGED <<sensorVars, formatVars, motionVars>>

Prior == [op |-> c_last.op, raised |-> c_last.raised]

\* the dicts of self.payload and of self.response
PayloadValue == Deref(payload, c_heap)

ResponseValue == Deref(response, c_heap)

Before == [payload |-> PayloadValue, response |-> ResponseValue]

AddMessage ==
    /\ c_calls < MaxCalls
    /\ Len(payload) < MaxMessages
    /\ \E recipient \in Recipients, message \in Contents :
         LET out == add_message(payload, c_heap, recipient, message) IN
         /\ payload' = out.payload
         /\ c_heap' = out.heap
         /\ c_added' = IF out.raised = "none" THEN c_added \cup {Len(c_heap) + 1}
                        ELSE c_added
         /\ c_last' = [op |-> "add_message", raised |-> out.raised, prior |-> Prior,
                       before |-> Before]
    /\ c_calls' = c_calls + 1
    /\ UNCHANGED <<response, c_env, c_nextId, c_posts>>

Send ==
    /\ c_calls < MaxCalls
    /\ \E reference \in References, http \in HttpOutcomes :
         LET out == send(payload, response, c_heap, reference, http, c_env, c_nextId) IN
         /\ payload' = out.payload
         /\ response' = out.response
         /\ c_heap' = out.heap
         /\ c_posts' = c_posts \o out.posts
         /\ c_nextId' = IF out.raised = "none" THEN c_nextId + Len(payload) ELSE c_nextId
         /\ c_last' = [op |-> "send", raised |-> out.raised, prior |-> Prior,
                       before |-> Before,
                       reference |-> reference, http |-> http,
                       posts |-> out.posts, json |-> out.json]
    /\ c_calls' = c_calls + 1
    /\ UNCHANGED <<c_env, c_added>>

NextConnector ==
    \/ AddMessage /\ ConnectorOnly
    \/ Send /\ ConnectorOnly

SpecConnector == ConnectorInit /\ [][NextConnector]_vars

----------------------------------------------------------------------------
\* Vocabulary of the properties

Last(sq) == sq[Len(sq)]

\* the trace is that of a finished iteration: main() is back at the first read
CycleOver == pc = "acquire" /\ ch = 1 /\ trace # << >>

\* the calls of one kind in the current trace
Reads     == ReadsOf(trace)
Urlopens  == UrlopensOf(trace)
Publishes == PublishesOf(trace)

\* a read whose sensor yielded no values after the retries
IsNoValuesRead(e) == e.op = "read" /\ ~e.res.ok /\ e.exc \notin ReadRaises

\* the text a reading is delivered as
TextT(res)  == str(round1(res.T))
TextRH(res) == str(round1(res.RH))

FieldNames ==
    <<"field1", "field2", "field3", "field4", "field5", "field6", "field7", "field8">>

\* topic -> channel and quantity, in the order of the publish call
Topics ==
    << [topic |-> "/temperature/garden",  c |-> 1, q |-> "T"],
       [topic |-> "/temperature/taras",   c |-> 2, q |-> "T"],
       [topic |-> "/hummidity/taras",     c |-> 2, q |-> "RH"],
       [topic |-> "/temperature/loundry", c |-> 3, q |-> "T"],
       [topic |-> "/hummidity/loundry",   c |-> 3, q |-> "RH"],
       [topic |-> "/temperature/front",   c |-> 4, q |-> "T"] >>

----------------------------------------------------------------------------
\* C1: in every cycle in which the logging request (urlopen) fails, the broker
\* publish call is still invoked in that same cycle.
C1_PublishAfterFailedLog ==
    (CycleOver /\ \E i \in 1..Len(trace) :
                     trace[i].op = "urlopen" /\ trace[i].exc # "none")
        => Publishes # << >>

\* C2: a read that yields no values does not raise; the remaining channels are
\* read in the same cycle and the batch has four entries, for pins 2, 3, 4, 17
\* in that order.
C2_FailedReadKeepsBatch ==
    \A i \in 1..Len(trace) :
        IsNoValuesRead(trace[i]) =>
            /\ trace[i].exc = "none"
            /\ CycleOver => /\ Len(Reads) = 4
                            /\ \A k \in 1..4 : Reads[k].pin = Pins[k]

\* C3: when publish.multiple fails, the exception is handled by the cycle's own
\* handlers and never reaches the top-level handler: the next call of the cycle
\* is sleep(600).
C3_BrokerFailureEndsInSleep ==
    \A i \in 1..Len(trace) :
        (trace[i].op = "publish" /\ trace[i].exc = "socket.error") =>
            /\ Len(trace) > i =>
                 trace[i + 1].op = "except" /\ trace[i + 1].out = "logged"
            /\ Len(trace) > i + 1 =>
                 trace[i + 2].op = "sleep" /\ trace[i + 2].secs = SleepSeconds
            /\ \A j \in 1..Len(trace) : trace[j].op # "print"

C5_PauseAfterTopLevelError ==
    \A i \in 1..Len(trace) :
        (CycleOver /\ trace[i].op = "print") =>
            \E j \in (i + 1)..Len(trace) : trace[j].op = "sleep"

\* C6: in a cycle in which one read yields no values, both sinks get a
\* delivery attempt that carries a value for all four channel positions.
C6_FailedReadStillDelivers ==
    (CycleOver /\ Cardinality({i \in 1..Len(trace) : IsNoValuesRead(trace[i])}) = 1)
        => /\ Urlopens # << >>
           /\ Publishes # << >>
           /\ \A i \in 1..Len(Urlopens) : Len(Urlopens[i].url) = 8

\* C7: the calls of a cycle happen one after the other in the fixed order: the
\* reads of pins 2, 3, 4, 17, then the logging request, only after four
\* completed reads, then the publish, only after the logging request returned,
\* then the sleep, only after the delivery stage ended.
C7_StrictSequence ==
    /\ \A i \in 1..Len(Reads) : i <= 4 /\ Reads[i].pin = Pins[i] /\ trace[i].op = "read"
    /\ \A i \in 1..Len(trace) :
         /\ trace[i].op = "urlopen" =>
              /\ i = 5
              /\ \A k \in 1..4 : trace[k].op = "read" /\ trace[k].exc = "none"
         /\ trace[i].op = "publish" =>
              i = 6 /\ trace[5].op = "urlopen" /\ trace[5].exc = "none"
         /\ trace[i].op = "sleep" =>
              /\ i > 5
              /\ \/ trace[i - 1].op = "publish" /\ trace[i - 1].exc = "none"
                 \/ trace[i - 1].op = "except" /\ trace[i - 1].out = "logged"
              /\ \A j \in 1..(i - 1) : trace[j].op # "sleep"

\* a full cycle: four reads, the request, the publish, the sleep
C7_Witness ==
    /\ CycleOver
    /\ Len(trace) = 7
    /\ trace[5].op = "urlopen"
    /\ trace[6].op = "publish"
    /\ trace[7].op = "sleep" /\ trace[7].exc = "none"

\* C8: every logging request carries field(2k-1) = the temperature and
\* field(2k) = the humidity read from the k-th pin of 2, 3, 4, 17 in this
\* cycle, and a cycle issues at most one logging request.
C8_FieldOrder ==
    /\ Len(Urlopens) <= 1
    /\ \A i \in 1..Len(Urlopens) :
         /\ Len(Urlopens[i].url) = 8
         /\ Len(Reads) = 4
         /\ \A k \in 1..4 :
              /\ Reads[k].pin = Pins[k]
              /\ Urlopens[i].url[2 * k - 1].name = FieldNames[2 * k - 1]
              /\ Urlopens[i].url[2 * k - 1].value = TextT(Reads[k].res)
              /\ Urlopens[i].url[2 * k].name = FieldNames[2 * k]
              /\ Urlopens[i].url[2 * k].value = TextRH(Reads[k].res)

\* a request was issued in a cycle whose channels read different values
C8_Witness ==
    /\ Len(Urlopens) = 1
    /\ Reads[1].res # Reads[2].res
    /\ Reads[3].res # Reads[4].res
    /\ TextT(Reads[1].res) # TextRH(Reads[1].res)

\* C9: two cycles with identical sensor readings produce the same logging
\* request URL and the same list of broker messages, whatever happened in the
\* cycles before them.
C9_SameReadingsSamePayload ==
    LET cur == Summary(trace) IN
    (prev.url # << >> /\ cur.inputs = prev.inputs) =>
        /\ cur.url # << >> => cur.url = prev.url
        /\ (cur.msgs # << >> /\ prev.msgs # << >>) => cur.msgs = prev.msgs

\* a cycle has delivered to both sinks with the readings of a remembered
\* earlier cycle that had delivered to both
C9_Witness ==
    /\ prev.url # << >>
    /\ prev.msgs # << >>
    /\ Summary(trace).inputs = prev.inputs
    /\ Summary(trace).msgs # << >>
    /\ \E k \in 1..4 : prev.inputs[k] # prev.inputs[1]

\* C10: a cycle makes at most one publish call; each carries the fixed list of
\* topics in order, every message with QoS 0 and retain set, and each payload
\* is this cycle's reading of the channel the topic is mapped to.
C10_BrokerMessages ==
    /\ Len(Publishes) <= 1
    /\ \A i \in 1..Len(Publishes) :
         /\ Len(Publishes[i].msgs) = Len(Topics)
         /\ Len(Reads) = 4
         /\ \A m \in 1..Len(Topics) :
              LET msg == Publishes[i].msgs[m]
                  res == Reads[Topics[m].c].res
              IN /\ msg.topic = Topics[m].topic
                 /\ msg.qos = 0
                 /\ msg.retain = TRUE
                 /\ msg.payload = IF Topics[m].q = "T" THEN TextT(res) ELSE TextRH(res)

\* a publish was issued in a cycle whose channels 2 and 3 read different values
C10_Witness ==
    /\ Len(Publishes) = 1
    /\ Reads[2].res # Reads[3].res

----------------------------------------------------------------------------
\* Reading a text back

IsDigit(c) == \E d \in 1..10 : Digits[d] = c

DigitValue(c) == (CHOOSE d \in 1..10 : Digits[d] = c) - 1

\* the digits of a text, read as one number
RECURSIVE DigitsValue(_)
DigitsValue(txt) ==
    IF txt = << >> THEN 0
    ELSE LET rest == DigitsValue(SubSeq(txt, 1, Len(txt) - 1))
         IN IF IsDigit(Last(txt)) THEN 10 * rest + DigitValue(Last(txt)) ELSE rest

\* an optional sign, at least one digit, the point, exactly one digit
OneDecimal(txt) ==
    LET n == Len(txt)
        first == IF n > 0 /\ txt[1] = "-" THEN 2 ELSE 1
    IN /\ n >= first + 2
       /\ txt[n - 1] = "."
       /\ IsDigit(txt[n])
       /\ \A i \in first..(n - 2) : IsDigit(txt[i])

\* the text names the tenth nearest to x (x in hundredths), with the sign of x
NearestTenth(txt, x) ==
    /\ Abs(10 * DigitsValue(txt) - Abs(x)) <= 5
    /\ (txt[1] = "-") <=> (x < 0)

\* C15: for every reading in the sensor's range getSensorData returns, for
\* humidity and for temperature, a text with exactly one digit after the
\* decimal point that is the reading rounded to one decimal place.
C15_OneDecimalDigit ==
    (f_in.ok /\ f_out.exc # "not called") =>
        /\ f_out.exc = "none"
        /\ Len(f_out.val) = 2
        /\ OneDecimal(f_out.val[1]) /\ NearestTenth(f_out.val[1], f_in.RH)
        /\ OneDecimal(f_out.val[2]) /\ NearestTenth(f_out.val[2], f_in.T)

\* a temperature just below zero has been formatted: round(-0.04, 1) is -0.0
C15_Witness ==
    /\ f_in.ok
    /\ f_in.T = -4
    /\ f_out.exc = "none"
    /\ f_out.val[2] = <<"-", "0", ".", "0">>

\* the channel whose reading field i of the logging request carries
ChannelOfField(i) == (i + 1) \div 2

\* the texts of a reading
TextsOf(res) == {TextT(res), TextRH(res)}

\* C16: every value delivered to either sink is a reading acquired in the same
\* cycle for its channel; no reading left in the locals by an earlier cycle,
\* one cut short during acquisition included, appears in a payload.
C16_OnlyThisCyclesReadings ==
    /\ \A i \in 1..Len(Urlopens) :
         /\ Len(Reads) = 4
         /\ \A k \in 1..Len(Urlopens[i].url) :
              /\ Reads[ChannelOfField(k)].exc = "none"
              /\ Urlopens[i].url[k].value \in TextsOf(Reads[ChannelOfField(k)].res)
    /\ \A i \in 1..Len(Publishes) :
         /\ Len(Reads) = 4
         /\ \A m \in 1..Len(Publishes[i].msgs) :
              /\ Reads[Topics[m].c].exc = "none"
              /\ Publishes[i].msgs[m].payload \in TextsOf(Reads[Topics[m].c].res)

\* a cycle has delivered to both sinks after a remembered cycle that was cut
\* short after reading other values for the first two channels
C16_Witness ==
    /\ prev.url = << >>
    /\ Len(prev.inputs) >= 3
    /\ Len(Publishes) = 1
    /\ prev.inputs[1] # Reads[1].res
    /\ prev.inputs[2] # Reads[2].res

----------------------------------------------------------------------------
\* motiondetect.py

\* the calls of on_message in the run
IsMessage(e) == e.op = "on_message"

SmsCalled(e) == e.sms # "none"

\* C11 as stated: an SMS is sent only in the night window (hour < 6).
C11_SmsOnlyAtNight ==
    \A i \in 1..Len(m_log) :
        (IsMessage(m_log[i]) /\ SmsCalled(m_log[i])) => m_log[i].hour < 6

\* C11 as amended: an SMS is sent only when the payload is "1", at any hour,
\* or when the hour is in the night window (hour < 6) and the payload is not
\* "3"; outside the night window payload "1" and no other causes an SMS.
C11_SmsOnlyWhenDue ==
    \A i \in 1..Len(m_log) :
        IsMessage(m_log[i]) =>
            /\ SmsCalled(m_log[i]) =>
                  \/ m_log[i].payload = "1"
                  \/ m_log[i].hour < 6 /\ m_log[i].payload # "3"
            /\ m_log[i].hour >= 6 =>
                  (SmsCalled(m_log[i]) <=> m_log[i].payload = "1")

\* an SMS was sent at noon for payload "1"
C11_Witness ==
    \E i \in 1..Len(m_log) :
        /\ IsMessage(m_log[i])
        /\ m_log[i].hour = 12
        /\ m_log[i].payload = "1"
        /\ m_log[i].sms = "sent"

\* C17: for a broker message that arrives in the night window (hour < 6),
\* on_message sends an SMS exactly when the payload is not "3".
C17_NightSmsUnlessSuppressed ==
    \A i \in 1..Len(m_log) :
        (IsMessage(m_log[i]) /\ m_log[i].hour < 6) =>
            (SmsCalled(m_log[i]) <=> m_log[i].payload # "3")

\* an SMS was sent at night for a payload other than "1" and "3"
C17_Witness ==
    \E i \in 1..Len(m_log) :
        /\ IsMessage(m_log[i])
        /\ m_log[i].hour < 6
        /\ m_log[i].payload = "2"
        /\ m_log[i].sms = "sent"

\* the polls of the run that read 1
Detections == {i \in 1..Len(m_log) : m_log[i].op = "poll" /\ m_log[i].value = 1}

CountOf(op) == Cardinality({i \in 1..Len(m_log) : m_log[i].op = op})

\* C18: at most 119 polls, each but the first right after a sleep of one
\* second; the logging request and the broker connect come only after a poll
\* that read 1, at most once each, and no poll follows such a poll; a run in
\* which no poll read 1 ends without an outbound call.
C18_PollingRun ==
    /\ CountOf("poll") <= 119
    /\ \A i \in 2..Len(m_log) :
         m_log[i].op = "poll" =>
             m_log[i - 1].op = "sleep" /\ m_log[i - 1].secs = 1
    /\ CountOf("urlopen") <= 1
    /\ CountOf("connect") <= 1
    /\ \A i \in 1..Len(m_log) :
         m_log[i].op \in {"urlopen", "connect"} => \E d \in Detections : d < i
    /\ \A d \in Detections : \A j \in (d + 1)..Len(m_log) : m_log[j].op # "poll"
    /\ m_pc = "ended" =>
         /\ CountOf("poll") = 119
         /\ \A i \in 1..Len(m_log) : m_log[i].op \in {"poll", "sleep"}

\* the last of the 119 polls read 1 and the run went through to its exit
C18_Witness ==
    /\ m_pc = "exit0"
    /\ CountOf("poll") = 119
    /\ CountOf("urlopen") = 1
    /\ CountOf("connect") = 1

\* C20: every message delivered to on_message is followed by
\* client.disconnect(), also when the SMS send raises, and the run then ends
\* with exit code 0.
C20_AlwaysDisconnects ==
    \A i \in 1..Len(m_log) :
        IsMessage(m_log[i]) =>
            /\ m_log[i].disconnect
            /\ m_pc \in {"after_loop", "exit0"}

----------------------------------------------------------------------------
\* MprofiAPIConnector

\* the last call was send(); what it found and what it did
SendCalled == c_last.op = "send"

SentCount == Len(c_last.before.payload)

\* the id the API returned for the i-th message of the last send()
ReturnedId(i) == IF SentCount = 1 THEN c_last.json.id ELSE c_last.json.result[i].id

\* C12: send() picks the endpoint by the size of the payload alone: one
\* message is posted to `send`, several are all posted to `sendbulk`, and an
\* empty payload raises ValueError without a request.
C12_EndpointBySize ==
    SendCalled =>
        /\ SentCount = 0 => c_last.raised = "ValueError" /\ c_last.posts = << >>
        /\ SentCount = 1 =>
             /\ Len(c_last.posts) = 1
             /\ c_last.posts[1].endpoint = "send"
             /\ "messages" \notin DOMAIN c_last.posts[1].data
             /\ c_last.posts[1].data.recipient = c_last.before.payload[1].recipient
             /\ c_last.posts[1].data.message = c_last.before.payload[1].message
        /\ SentCount > 1 =>
             /\ Len(c_last.posts) = 1
             /\ c_last.posts[1].endpoint = "sendbulk"
             /\ c_last.posts[1].data.messages = c_last.before.payload

\* three messages were posted together, whatever came of the request
C12_Witness ==
    /\ SendCalled
    /\ SentCount = 3
    /\ c_last.http = "HTTPError"
    /\ c_last.posts[1].endpoint = "sendbulk"

\* the messages of the response were all put into the payload by
\* add_message calls
AddedByAddMessage == \A i \in 1..Len(response) : response[i] \in c_added

\* C13: after a successful send() of messages that add_message calls put
\* into the payload, the response holds those messages in the order they
\* were added, each with the id the API returned for it, and the payload is
\* empty; a send() right after a successful one raises ValueError and posts
\* nothing.
C13_ResponseAfterSuccess ==
    /\ (SendCalled /\ c_last.raised = "none") =>
          /\ payload = << >>
          /\ Len(response) = SentCount
          /\ AddedByAddMessage =>
                \A i \in 1..SentCount :
                   /\ ResponseValue[i].recipient = c_last.before.payload[i].recipient
                   /\ ResponseValue[i].message = c_last.before.payload[i].message
                   /\ ResponseValue[i].id = ReturnedId(i)
    /\ (SendCalled /\ c_last.prior = [op |-> "send", raised |-> "none"]) =>
          /\ c_last.raised = "ValueError"
          /\ c_last.posts = << >>
          /\ payload = << >>
          /\ ResponseValue = c_last.before.response

\* two messages that add_message put into the payload, for different
\* recipients, were sent and got different ids
C13_Witness ==
    /\ SendCalled
    /\ c_last.raised = "none"
    /\ Len(response) = 2
    /\ AddedByAddMessage
    /\ ResponseValue[1].recipient # ResponseValue[2].recipient
    /\ ResponseValue[1].id # ResponseValue[2].id

\* C14: a send() with messages to send issues exactly one POST; a connection
\* failure raises MprofiConnectionError, a non-2xx answer MprofiAuthError, a
\* body that is not JSON MprofiConnectionError, and then no id is recorded.
C14_OnePostTypedErrors ==
    (SendCalled /\ SentCount > 0) =>
        /\ Len(c_last.posts) = 1
        /\ c_last.http = "ConnectionError" => c_last.raised = "MprofiConnectionError"
        /\ c_last.http = "HTTPError" => c_last.raised = "MprofiAuthError"
        /\ c_last.http = "NotJSON" => c_last.raised = "MprofiConnectionError"
        /\ c_last.http # "ok" =>
             /\ ResponseValue = c_last.before.response
             /\ \A i \in 1..Len(payload) : "id" \notin DOMAIN PayloadValue[i]

\* C19: a send() that fails on the request leaves payload and response as
\* they were before the call, with or without a reference.
C19_FailedSendLeavesState ==
    (SendCalled /\ SentCount > 0 /\ c_last.http # "ok") =>
        /\ PayloadValue = c_last.before.payload
        /\ ResponseValue = c_last.before.response

====
